---- MODULE Spec2Model ----
(***************************************************************************)
(* Model of src/app.py: the Netflix dashboard script.  One run of the      *)
(* script is a linear pass load -> summary -> sidebar -> filter ->         *)
(* aggregates -> table; a widget change re-runs the script top to bottom   *)
(* in a fresh namespace, with only the st.cache_data result and the widget *)
(* values surviving.                                                       *)
(*                                                                         *)
(* Strings are tuples of one-character strings, so that str.split,         *)
(* str.extract, to_numeric and to_datetime are computed character by       *)
(* character.  A cell of a data frame is a record [isnull, v].             *)
(***************************************************************************)
EXTENDS Integers, Sequences, FiniteSets, TLC

\* ------------------------------------------------------------------ bounds
\* Longest input file (number of data rows) with all columns present.
MaxRows == 2
\* Longest input file among those that lack one required column.
MaxRowsMissing == 1
\* Longest input file the filter expression is applied to on its own.
MaxFilterRows == 3
\* Length of the input files of the three-record runs.
LongRows == 3

\* ------------------------------------------------------- program constants
\* .head(15) of the genre and country tables.
TopK == 15
\* .head(10) of the rating table.
TopRatings == 10
\* .head(100) of the detailed data table.
TableRows == 100

\* --------------------------------------------------------------- sequences
RECURSIVE SumSeq(_)
SumSeq(s) == IF s = <<>> THEN 0 ELSE Head(s) + SumSeq(Tail(s))

RECURSIVE FilterSeq(_, _)
\* The subsequence of s at the positions in keep, in order.
FilterSeq(s, keep) ==
  IF s = <<>> THEN <<>>
  ELSE LET rest == FilterSeq(Tail(s), {i - 1 : i \in keep \ {1}})
       IN IF 1 \in keep THEN <<Head(s)>> \o rest ELSE rest

Range(s) == {s[i] : i \in DOMAIN s}

Min(S) == CHOOSE x \in S : \A y \in S : x <= y
Max(S) == CHOOSE x \in S : \A y \in S : x >= y

Prefix(s, n) == IF Len(s) <= n THEN s ELSE SubSeq(s, 1, n)

\* ------------------------------------------------------------- characters
Digits == {"0", "1", "2", "3", "4", "5", "6", "7", "8", "9"}

DigitVal(c) ==
  CASE c = "0" -> 0 [] c = "1" -> 1 [] c = "2" -> 2 [] c = "3" -> 3
    [] c = "4" -> 4 [] c = "5" -> 5 [] c = "6" -> 6 [] c = "7" -> 7
    [] c = "8" -> 8 [] c = "9" -> 9

RECURSIVE DecimalValue(_)
\* int() of a non-empty run of decimal digits.
DecimalValue(s) ==
  IF s = <<>> THEN 0
  ELSE DecimalValue(SubSeq(s, 1, Len(s) - 1)) * 10 + DigitVal(s[Len(s)])

\* ------------------------------------------------------------------ cells
NullStr == [isnull |-> TRUE, v |-> <<>>]
NullNum == [isnull |-> TRUE, v |-> 0]
NullDate == [isnull |-> TRUE, v |-> <<0, 0, 0>>]
Val(x) == [isnull |-> FALSE, v |-> x]

\* ---------------------------------------------------------------- columns
RequiredColumns ==
  {"type", "title", "director", "country", "date_added", "release_year",
   "duration", "rating", "listed_in"}
\* The file may carry further columns; dropna() looks at them as well.
AllColumns == RequiredColumns \cup {"cast"}

Movie == <<"M", "o", "v", "i", "e">>
TVShow == <<"T", "V", " ", "S", "h", "o", "w">>

\* ----------------------------------------------------------- pd.read_csv
\* read_csv turns an empty field and the default NA markers into NaN.
NaMarkers == {<<>>, <<"N", "A">>, <<"N", "a", "N">>}

ReadCell(raw) == IF raw \in NaMarkers THEN NullStr ELSE Val(raw)

ReadCsv(file) ==
  [i \in DOMAIN file.rows |->
     [c \in file.columns |-> ReadCell(file.rows[i][c])]]

\* ------------------------------------------------- pd.to_numeric (coerce)
\* An optional sign followed by decimal digits parses; anything else is NaN.
ToNumeric(cell) ==
  IF cell.isnull THEN NullNum
  ELSE LET s == cell.v
           neg == Len(s) > 0 /\ s[1] = "-"
           body == IF neg THEN Tail(s) ELSE s
       IN IF body # <<>> /\ \A i \in DOMAIN body : body[i] \in Digits
          THEN Val(IF neg THEN 0 - DecimalValue(body) ELSE DecimalValue(body))
          ELSE NullNum

\* ------------------------------------------------ pd.to_datetime (coerce)
IsLeap(y) == (y % 4 = 0 /\ y % 100 # 0) \/ y % 400 = 0

DaysIn(y, m) ==
  IF m \in {4, 6, 9, 11} THEN 30
  ELSE IF m = 2 THEN (IF IsLeap(y) THEN 29 ELSE 28)
  ELSE 31

\* Dates are written YYYY-MM-DD; a string of another shape, or one naming a
\* day that does not exist, is NaT.
ToDatetime(cell) ==
  IF cell.isnull THEN NullDate
  ELSE LET s == cell.v
       IN IF /\ Len(s) = 10
             /\ s[5] = "-" /\ s[8] = "-"
             /\ \A i \in {1, 2, 3, 4, 6, 7, 9, 10} : s[i] \in Digits
          THEN LET y == DecimalValue(SubSeq(s, 1, 4))
                   m == DecimalValue(SubSeq(s, 6, 7))
                   d == DecimalValue(SubSeq(s, 9, 10))
               IN IF m \in 1..12 /\ d >= 1 /\ d <= DaysIn(y, m)
                  THEN Val(<<y, m, d>>)
                  ELSE NullDate
          ELSE NullDate

\* df['date_added'] = ...; df['release_year'] = ...
Coerce(frame) ==
  [i \in DOMAIN frame |->
     [frame[i] EXCEPT !["date_added"] = ToDatetime(@),
                      !["release_year"] = ToNumeric(@)]]

\* ------------------------------------------------------------ df.dropna()
HasNullAll(row) == \A c \in DOMAIN row : row[c].isnull

HasNull(row) == \E c \in DOMAIN row : row[c].isnull

RECURSIVE DropNaHowAll(_)
DropNaHowAll(frame) ==
  IF frame = <<>> THEN <<>>
  ELSE IF HasNullAll(Head(frame)) THEN DropNaHowAll(Tail(frame))
  ELSE <<Head(frame)>> \o DropNaHowAll(Tail(frame))

RECURSIVE DropNa(_)
DropNa(frame) ==
  IF frame = <<>> THEN <<>>
  ELSE IF HasNull(Head(frame)) THEN DropNa(Tail(frame))
  ELSE <<Head(frame)>> \o DropNa(Tail(frame))

\* ------------------------------------------------- Series.str.split(', ')
Delimiter == <<",", " ">>

StartsWith(s, pre) == Len(s) >= Len(pre) /\ SubSeq(s, 1, Len(pre)) = pre

RECURSIVE SplitFrom(_, _, _)
\* Left-to-right scan for non-overlapping occurrences of sep; cur is the
\* piece being collected.
SplitFrom(s, sep, cur) ==
  IF s = <<>> THEN <<cur>>
  ELSE IF StartsWith(s, sep)
       THEN <<cur>> \o SplitFrom(SubSeq(s, Len(sep) + 1, Len(s)), sep, <<>>)
       ELSE SplitFrom(Tail(s), sep, Append(cur, Head(s)))

Split(s, sep) == SplitFrom(s, sep, <<>>)

\* df[col].str.split(', '): one list of values per record.
SplitColumn(frame, col) ==
  [i \in DOMAIN frame |-> Split(frame[i][col].v, Delimiter)]

\* --------------------------------------------------------- Series.explode()
RECURSIVE ExplodeFirstOnly(_)
ExplodeFirstOnly(lists) ==
  IF lists = <<>> THEN <<>>
  ELSE <<Head(lists)[1]>> \o ExplodeFirstOnly(Tail(lists))

RECURSIVE Explode(_)
\* One entry per value of every list, record after record.
Explode(lists) ==
  IF lists = <<>> THEN <<>> ELSE Head(lists) \o Explode(Tail(lists))

\* ---------------------------------------------------- Series.value_counts()
RECURSIVE Uniq(_, _)
\* The distinct values in first-encountered order.
Uniq(vals, seen) ==
  IF vals = <<>> THEN <<>>
  ELSE IF Head(vals) \in seen THEN Uniq(Tail(vals), seen)
  ELSE <<Head(vals)>> \o Uniq(Tail(vals), seen \cup {Head(vals)})

Occurrences(vals, v) == Cardinality({i \in DOMAIN vals : vals[i] = v})

Tally(vals) ==
  LET u == Uniq(vals, {})
  IN [i \in DOMAIN u |-> [value |-> u[i], count |-> Occurrences(vals, u[i])]]

RemoveAt(s, i) == SubSeq(s, 1, i - 1) \o SubSeq(s, i + 1, Len(s))

RECURSIVE SortByCountDesc(_)
\* Stable sort by count, largest first: ties keep first-encountered order.
SortByCountDesc(t) ==
  IF t = <<>> THEN <<>>
  ELSE LET m == Max({t[i].count : i \in DOMAIN t})
           i == Min({j \in DOMAIN t : t[j].count = m})
       IN <<t[i]>> \o SortByCountDesc(RemoveAt(t, i))

RECURSIVE SortByValueAsc(_)
\* sort_index() / groupby keys: ascending by (integer) value.
SortByValueAsc(t) ==
  IF t = <<>> THEN <<>>
  ELSE LET m == Min({t[i].value : i \in DOMAIN t})
           i == Min({j \in DOMAIN t : t[j].value = m})
       IN <<t[i]>> \o SortByValueAsc(RemoveAt(t, i))

ValueCountsUnsorted(vals) == Tally(vals)

ValueCounts(vals) == SortByCountDesc(Tally(vals))

NUnique(vals) == Cardinality(Range(vals))

Column(frame, col) == [i \in DOMAIN frame |-> frame[i][col].v]

\* ------------------------------------------ Series.str.extract(r'(\d+)')
RECURSIVE TakeDigits(_)
TakeDigits(s) ==
  IF s # <<>> /\ Head(s) \in Digits
  THEN <<Head(s)>> \o TakeDigits(Tail(s))
  ELSE <<>>

RECURSIVE FirstDigitRun(_)
\* re.search: the first place a digit stands, and the digits from there on.
FirstDigitRun(s) ==
  IF s = <<>> THEN <<>>
  ELSE IF Head(s) \in Digits THEN TakeDigits(s)
  ELSE FirstDigitRun(Tail(s))

ExtractNumberAnchored(cell) ==
  IF cell.isnull \/ TakeDigits(cell.v) = <<>> THEN NullNum
  ELSE Val(DecimalValue(TakeDigits(cell.v)))

\* .str.extract(r'(\d+)').astype(float) of one cell.
ExtractNumber(cell) ==
  IF cell.isnull \/ FirstDigitRun(cell.v) = <<>> THEN NullNum
  ELSE Val(DecimalValue(FirstDigitRun(cell.v)))

\* frame[new] = frame[col].str.extract(r'(\d+)').astype(float)
WithExtracted(frame, col, new) ==
  [i \in DOMAIN frame |->
     [c \in DOMAIN frame[i] \cup {new} |->
        IF c = new THEN ExtractNumber(frame[i][col]) ELSE frame[i][c]]]

\* ------------------------------------------------------------ Series.mean()
\* Nulls are skipped; the mean of no value is NaN.  The mean is kept as the
\* exact fraction sum / n.
Mean(frame, col) ==
  LET keep == {i \in DOMAIN frame : ~frame[i][col].isnull}
      vals == FilterSeq([i \in DOMAIN frame |-> frame[i][col].v], keep)
  IN [isnull |-> keep = {}, sum |-> SumSeq(vals), n |-> Cardinality(keep)]

\* int(x) of the fraction a / n: truncation toward zero.
IntOf(a, n) == IF a >= 0 THEN a \div n ELSE 0 - ((0 - a) \div n)

\* -------------------------------------------------------- boolean indexing
SelectType(frame, t) ==
  FilterSeq(frame, {i \in DOMAIN frame : frame[i]["type"].v = t})

BetweenExclusive(x, lo, hi) == lo < x /\ x < hi

\* Series.between(lo, hi): inclusive at both ends.
Between(x, lo, hi) == lo <= x /\ x <= hi

RECURSIVE ApplyFilter(_, _, _, _)
\* df[(df['type'].isin(types)) & (df['release_year'].between(lo, hi))]
ApplyFilter(frame, types, lo, hi) ==
  IF frame = <<>> THEN <<>>
  ELSE LET r == Head(frame)
           rest == ApplyFilter(Tail(frame), types, lo, hi)
       IN IF r["type"].v \in types /\ Between(r["release_year"].v, lo, hi)
          THEN <<r>> \o rest
          ELSE rest

\* ------------------------------------------------------------ input files
RECURSIVE Join(_)
\* The values of a list written with ", " between them.
Join(values) ==
  IF Len(values) = 1 THEN values[1]
  ELSE values[1] \o Delimiter \o Join(Tail(values))

US == <<"U", "S">>
UK == <<"U", "K">>
IN_ == <<"I", "N", "D">>
Drama == <<"D", "r", "a", "m", "a">>
Comedy == <<"C", "o", "m", "e", "d", "y">>

\* Fifteen further genres, named by one letter each.
Letters ==
  << <<"a">>, <<"b">>, <<"c">>, <<"d">>, <<"e">>, <<"f">>, <<"g">>, <<"h">>,
     <<"i">>, <<"j">>, <<"k">>, <<"l">>, <<"m">>, <<"n">>, <<"o">> >>

Date1 == <<"2", "0", "2", "1", "-", "0", "9", "-", "2", "5">>
Date2 == <<"2", "0", "2", "0", "-", "0", "2", "-", "2", "9">>
BadDate == <<"2", "0", "2", "1", "-", "0", "2", "-", "3", "0">>

Y2019 == <<"2", "0", "1", "9">>
Y2020 == <<"2", "0", "2", "0">>
Y2021 == <<"2", "0", "2", "1">>
BadYear == <<"2", "0", "x", "1">>

BaseRow ==
  [c \in AllColumns |->
     CASE c = "type" -> Movie
       [] c = "title" -> <<"t">>
       [] c = "director" -> <<"d">>
       [] c = "cast" -> <<"c">>
       [] c = "country" -> Join(<<US, UK>>)
       [] c = "date_added" -> Date1
       [] c = "release_year" -> Y2020
       [] c = "duration" -> <<"9", "0", " ", "m", "i", "n">>
       [] c = "rating" -> <<"P", "G">>
       [] c = "listed_in" -> Join(<<Drama, Comedy>>)]

\* The rows a file is made of.  Rows 1-4 survive cleaning; 5-7 do not.
RowPool ==
  { BaseRow,
    [BaseRow EXCEPT !["release_year"] = Y2021,
                    !["country"] = US,
                    !["duration"] = <<"c", "9", "5", "m", "2">>,
                    !["rating"] = <<"R">>,
                    !["listed_in"] = Join(<<Drama, Drama>>)],
    [BaseRow EXCEPT !["type"] = TVShow,
                    !["release_year"] = Y2021,
                    !["date_added"] = Date2,
                    !["country"] = IN_,
                    !["duration"] = <<"3", " ", "S", "e", "a", "s", "o", "n", "s">>,
                    !["listed_in"] = Join(Letters \o <<Drama>>)],
    [BaseRow EXCEPT !["type"] = TVShow,
                    !["release_year"] = Y2019,
                    !["country"] = Join(<<UK, US, IN_>>),
                    !["duration"] = <<"S", "e", "a", "s", "o", "n", "s">>,
                    !["listed_in"] = Comedy],
    [BaseRow EXCEPT !["release_year"] = BadYear],
    [BaseRow EXCEPT !["date_added"] = BadDate],
    [BaseRow EXCEPT !["cast"] = <<"N", "A">>] }

SeqsUpTo(S, n) == UNION {[1..k -> S] : k \in 0..n}

Restrict(row, cols) == [c \in cols |-> row[c]]

\* Files with every column and at most n rows.
FullFiles(n) ==
  {[columns |-> AllColumns, rows |-> rows] : rows \in SeqsUpTo(RowPool, n)}

\* Files with every column, and files that lack one required column.
Files ==
  FullFiles(MaxRows)
  \cup
  {[columns |-> AllColumns \ {c},
    rows |-> [i \in DOMAIN rows |-> Restrict(rows[i], AllColumns \ {c})]] :
     c \in RequiredColumns, rows \in SeqsUpTo(RowPool, MaxRowsMissing)}

\* ------------------------------------------------------------------ state
VARIABLES
  csv,                    \* netflix_titles.csv: [columns, rows]
  cache,                  \* st.cache_data entry of load_and_clean_data
  widget,                 \* the sidebar widgets' values, kept across re-runs
  pc, fail_at, error,     \* position in the script; where and how it raised
  df_original, df,
  original_rows, cleaned_rows, removed, pct_removed,
  content_types, selected_content_types, min_year, max_year,
  df_filtered,
  movies, shows, countries, genres,
  type_dist, added_trend,
  genres_list, top_genres, rating_dist,
  countries_list, top_countries, release_dist,
  movies_df, avg_duration, movies_note, shows_df, avg_seasons, shows_note,
  insight1, insight2, insight3,
  table

ctlVars == <<pc, fail_at, error>>
loadVars == <<df_original, df>>
summaryVars == <<original_rows, cleaned_rows, removed, pct_removed>>
sidebarVars == <<content_types, selected_content_types, min_year, max_year>>
metricVars == <<movies, shows, countries, genres>>
overviewVars == <<type_dist, added_trend>>
genreVars == <<genres_list, top_genres, rating_dist>>
geoVars == <<countries_list, top_countries, release_dist>>
durationVars ==
  <<movies_df, avg_duration, movies_note, shows_df, avg_seasons, shows_note>>
insightVars == <<insight1, insight2, insight3>>

vars ==
  <<csv, cache, widget, ctlVars, loadVars, summaryVars, sidebarVars,
    df_filtered, metricVars, overviewVars, genreVars, geoVars, durationVars,
    insightVars, table>>

NoError == [kind |-> "", key |-> ""]
KeyError(col) == [kind |-> "KeyError", key |-> col]
NoMean == [isnull |-> TRUE, sum |-> 0, n |-> 0]
NoInsight1 == [kind |-> "", num |-> 0, den |-> 0]
NoInsight2 == [kind |-> "", value |-> <<>>]
NoInsight3 == [kind |-> "", value |-> 0]
NoWidget == [set |-> FALSE, types |-> {}, lo |-> 0, hi |-> 0]
NoCache == [hit |-> FALSE, original |-> <<>>, clean |-> <<>>]

\* The order of the script's sections.
Steps ==
  <<"load", "summary", "sidebar", "filter", "metrics", "overview", "genres",
    "geo", "duration", "insights", "table", "done">>

StepNo(p) == CHOOSE i \in DOMAIN Steps : Steps[i] = p

\* The script has completed section p in this run.
Past(p) == pc # "failed" /\ StepNo(pc) > StepNo(p)

Fail(step, err) == pc' = "failed" /\ fail_at' = step /\ error' = err

Goto(step) == pc' = step /\ UNCHANGED <<fail_at, error>>

FirstMissing(cols) == cols[Min({i \in DOMAIN cols : cols[i] \notin csv.columns})]

AnyMissing(cols) == \E i \in DOMAIN cols : cols[i] \notin csv.columns

\* The first run: nothing cached, no widget touched, a fresh script namespace.
FirstRun ==
  /\ cache = NoCache
  /\ widget = NoWidget
  /\ pc = "load" /\ fail_at = "" /\ error = NoError
  /\ df_original = <<>> /\ df = <<>>
  /\ original_rows = 0 /\ cleaned_rows = 0 /\ removed = 0
  /\ pct_removed = [num |-> 0, den |-> 0]
  /\ content_types = {} /\ selected_content_types = {}
  /\ min_year = 0 /\ max_year = 0
  /\ df_filtered = <<>>
  /\ movies = 0 /\ shows = 0 /\ countries = 0 /\ genres = 0
  /\ type_dist = <<>> /\ added_trend = <<>>
  /\ genres_list = <<>> /\ top_genres = <<>> /\ rating_dist = <<>>
  /\ countries_list = <<>> /\ top_countries = <<>> /\ release_dist = <<>>
  /\ movies_df = <<>> /\ avg_duration = NoMean /\ movies_note = ""
  /\ shows_df = <<>> /\ avg_seasons = NoMean /\ shows_note = ""
  /\ insight1 = NoInsight1 /\ insight2 = NoInsight2 /\ insight3 = NoInsight3
  /\ table = <<>>

Init == csv \in Files /\ FirstRun

\* ---------------------------------------------- load_and_clean_data (42-55)
Load ==
  /\ pc = "load"
  /\ IF cache.hit
     THEN /\ df_original' = cache.original
          /\ df' = cache.clean
          /\ Goto("summary")
          /\ UNCHANGED cache
     ELSE IF AnyMissing(<<"date_added", "release_year">>)
     THEN /\ Fail("load", KeyError(FirstMissing(<<"date_added", "release_year">>)))
          /\ UNCHANGED <<cache, loadVars>>
     ELSE LET coerced == Coerce(ReadCsv(csv))
          IN /\ df_original' = coerced
             /\ df' = DropNa(coerced)
             /\ cache' = [hit |-> TRUE, original |-> coerced, clean |-> DropNa(coerced)]
             /\ Goto("summary")
  /\ UNCHANGED <<csv, widget, summaryVars, sidebarVars, df_filtered, metricVars,
                 overviewVars, genreVars, geoVars, durationVars, insightVars,
                 table>>

\* ------------------------------------------- Data Cleaning Summary (62-77)
Summary ==
  /\ pc = "summary"
  /\ original_rows' = Len(df_original)
  /\ cleaned_rows' = Len(df)
  /\ removed' = Len(df_original) - Len(df)
  /\ IF Len(df_original) = 0
     THEN /\ Fail("summary", [kind |-> "ZeroDivisionError", key |-> ""])
          /\ UNCHANGED pct_removed
     ELSE /\ pct_removed' =
               [num |-> (Len(df_original) - Len(df)) * 100, den |-> Len(df_original)]
          /\ Goto("sidebar")
  /\ UNCHANGED <<csv, cache, widget, loadVars, sidebarVars, df_filtered,
                 metricVars, overviewVars, genreVars, geoVars, durationVars,
                 insightVars, table>>

\* -------------------------------------------------- Sidebar filters (81-95)
Years(frame) == {frame[i]["release_year"].v : i \in DOMAIN frame}

Sidebar ==
  /\ pc = "sidebar"
  /\ IF "type" \notin csv.columns
     THEN /\ Fail("sidebar", KeyError("type"))
          /\ UNCHANGED sidebarVars
     ELSE /\ content_types' = Range(Column(df, "type"))
          /\ selected_content_types' =
               IF widget.set THEN widget.types ELSE Range(Column(df, "type"))
          /\ IF df = <<>>
             THEN \* int(nan): the minimum of no year
                  /\ Fail("sidebar", [kind |-> "ValueError", key |-> ""])
                  /\ UNCHANGED <<min_year, max_year>>
             ELSE /\ min_year' = IF widget.set THEN widget.lo ELSE Min(Years(df))
                  /\ max_year' = IF widget.set THEN widget.hi ELSE Max(Years(df))
                  /\ Goto("filter")
  /\ UNCHANGED <<csv, cache, widget, loadVars, summaryVars, df_filtered,
                 metricVars, overviewVars, genreVars, geoVars, durationVars,
                 insightVars, table>>

\* ---------------------------------------------------- Apply filters (97-101)
Filter ==
  /\ pc = "filter"
  /\ df_filtered' = ApplyFilter(df, selected_content_types, min_year, max_year)
  /\ Goto("metrics")
  /\ UNCHANGED <<csv, cache, widget, loadVars, summaryVars, sidebarVars,
                 metricVars, overviewVars, genreVars, geoVars, durationVars,
                 insightVars, table>>

\* ------------------------------------------------------ Key Metrics (103-124)
Exploded(frame, col) == Explode(SplitColumn(frame, col))

Metrics ==
  /\ pc = "metrics"
  /\ movies' = Len(SelectType(df_filtered, Movie))
  /\ shows' = Len(SelectType(df_filtered, TVShow))
  /\ IF "country" \notin csv.columns
     THEN Fail("metrics", KeyError("country")) /\ UNCHANGED <<countries, genres>>
     ELSE /\ countries' = NUnique(Exploded(df_filtered, "country"))
          /\ IF "listed_in" \notin csv.columns
             THEN Fail("metrics", KeyError("listed_in")) /\ UNCHANGED genres
             ELSE /\ genres' = NUnique(Exploded(df_filtered, "listed_in"))
                  /\ Goto("overview")
  /\ UNCHANGED <<csv, cache, widget, loadVars, summaryVars, sidebarVars,
                 df_filtered, overviewVars, genreVars, geoVars, durationVars,
                 insightVars, table>>

\* ------------------------------------------------- Content Overview (128-169)
Overview ==
  /\ pc = "overview"
  /\ type_dist' = ValueCounts(Column(df_filtered, "type"))
  /\ added_trend' =
       SortByValueAsc(Tally([i \in DOMAIN df_filtered |->
                               df_filtered[i]["date_added"].v[1]]))
  /\ Goto("genres")
  /\ UNCHANGED <<csv, cache, widget, loadVars, summaryVars, sidebarVars,
                 df_filtered, metricVars, genreVars, geoVars, durationVars,
                 insightVars, table>>

\* ------------------------------------------------ Genres & Ratings (171-213)
GenresRatings ==
  /\ pc = "genres"
  /\ genres_list' = Exploded(df_filtered, "listed_in")
  /\ top_genres' = Prefix(ValueCounts(Exploded(df_filtered, "listed_in")), TopK)
  /\ IF "rating" \notin csv.columns
     THEN Fail("genres", KeyError("rating")) /\ UNCHANGED rating_dist
     ELSE /\ rating_dist' =
               Prefix(ValueCounts(Column(df_filtered, "rating")), TopRatings)
          /\ Goto("geo")
  /\ UNCHANGED <<csv, cache, widget, loadVars, summaryVars, sidebarVars,
                 df_filtered, metricVars, overviewVars, geoVars, durationVars,
                 insightVars, table>>

\* ------------------------------------ Geographical & Temporal (215-257)
GeoTemporal ==
  /\ pc = "geo"
  /\ countries_list' = Exploded(df_filtered, "country")
  /\ top_countries' = Prefix(ValueCounts(Exploded(df_filtered, "country")), TopK)
  /\ release_dist' = SortByValueAsc(Tally(Column(df_filtered, "release_year")))
  /\ Goto("duration")
  /\ UNCHANGED <<csv, cache, widget, loadVars, summaryVars, sidebarVars,
                 df_filtered, metricVars, overviewVars, genreVars, durationVars,
                 insightVars, table>>

\* ------------------------------------------------ Duration Analysis (259-319)
ViewAfterAssignInPlace(view) ==
  IF view # <<>> /\ "duration" \in csv.columns
  THEN WithExtracted(view, "duration", "duration_min")
  ELSE view

\* df_filtered[...] selects into a new frame and .copy() is taken before the
\* column is added: the assignment lands on the copy, the view is as it was.
ViewAfterAssign(view) == view

Duration ==
  /\ pc = "duration"
  /\ LET movies_sel == SelectType(df_filtered, Movie)
         shows_sel == SelectType(df_filtered, TVShow)
         movies_new == WithExtracted(movies_sel, "duration", "duration_min")
         shows_new == WithExtracted(shows_sel, "duration", "seasons")
     IN IF Len(movies_sel) > 0 /\ "duration" \notin csv.columns
        THEN /\ Fail("duration", KeyError("duration"))
             /\ movies_df' = movies_sel
             /\ UNCHANGED <<avg_duration, movies_note, shows_df, avg_seasons,
                            shows_note>>
        ELSE /\ IF Len(movies_sel) > 0
                THEN /\ movies_df' = movies_new
                     /\ avg_duration' = Mean(movies_new, "duration_min")
                     /\ movies_note' = "Average Movie Duration"
                ELSE /\ movies_df' = movies_sel
                     /\ movies_note' = "No movies in selected filters"
                     /\ UNCHANGED avg_duration
             /\ IF Len(shows_sel) > 0 /\ "duration" \notin csv.columns
                THEN /\ Fail("duration", KeyError("duration"))
                     /\ shows_df' = shows_sel
                     /\ UNCHANGED <<avg_seasons, shows_note>>
                ELSE /\ IF Len(shows_sel) > 0
                        THEN /\ shows_df' = shows_new
                             /\ avg_seasons' = Mean(shows_new, "seasons")
                             /\ shows_note' = "Average Number of Seasons"
                        ELSE /\ shows_df' = shows_sel
                             /\ shows_note' = "No TV shows in selected filters"
                             /\ UNCHANGED avg_seasons
                     /\ Goto("insights")
  /\ df_filtered' = ViewAfterAssign(df_filtered)
  /\ UNCHANGED <<csv, cache, widget, loadVars, summaryVars, sidebarVars,
                 metricVars, overviewVars, genreVars, geoVars, insightVars,
                 table>>

\* ----------------------------------------------------- Key Insights (323-349)
ContentMixUnguarded(view) ==
  IF Len(SelectType(view, TVShow)) > 0
  THEN [kind |-> "ratio", num |-> Len(SelectType(view, Movie)),
        den |-> Len(SelectType(view, TVShow))]
  ELSE [kind |-> "ZeroDivisionError", num |-> Len(SelectType(view, Movie)),
        den |-> 0]

\* movies_count / shows_count, guarded by shows_count > 0.
ContentMix(view) ==
  IF Len(SelectType(view, TVShow)) > 0
  THEN [kind |-> "ratio", num |-> Len(SelectType(view, Movie)),
        den |-> Len(SelectType(view, TVShow))]
  ELSE [kind |-> "Only movies selected", num |-> 0, den |-> 0]

\* value_counts().index[0] of the exploded genres, guarded by len > 0.
MostPopularGenre(view) ==
  IF Len(view) > 0
  THEN [kind |-> "genre",
        value |-> ValueCounts(Exploded(view, "listed_in"))[1].value]
  ELSE [kind |-> "No data available", value |-> <<>>]

\* int(df_filtered['release_year'].mean()), guarded by len > 0.
AverageReleaseYear(view) ==
  IF Len(view) > 0
  THEN LET m == Mean(view, "release_year")
       IN [kind |-> "year", value |-> IntOf(m.sum, m.n)]
  ELSE [kind |-> "No data available", value |-> 0]

Insights ==
  /\ pc = "insights"
  /\ insight1' = ContentMix(df_filtered)
  /\ insight2' = MostPopularGenre(df_filtered)
  /\ insight3' = AverageReleaseYear(df_filtered)
  /\ Goto("table")
  /\ UNCHANGED <<csv, cache, widget, loadVars, summaryVars, sidebarVars,
                 df_filtered, metricVars, overviewVars, genreVars, geoVars,
                 durationVars, table>>

\* ----------------------------------------------- Detailed Data Table (353-356)
display_cols ==
  <<"type", "title", "director", "country", "release_year", "rating",
    "listed_in", "duration">>

DetailedTable ==
  /\ pc = "table"
  /\ IF AnyMissing(display_cols)
     THEN Fail("table", KeyError(FirstMissing(display_cols))) /\ UNCHANGED table
     ELSE /\ table' =
               Prefix([i \in DOMAIN df_filtered |->
                         Restrict(df_filtered[i], Range(display_cols))],
                      TableRows)
          /\ Goto("done")
  /\ UNCHANGED <<csv, cache, widget, loadVars, summaryVars, sidebarVars,
                 df_filtered, metricVars, overviewVars, genreVars, geoVars,
                 durationVars, insightVars>>

\* ------------------------------------------------ a widget change: re-run
\* The sidebar was drawn in this run, so the user can change a widget.
SidebarDrawn ==
  \/ pc = "done"
  \/ pc = "failed" /\ StepNo(fail_at) > StepNo("sidebar")

\* The multiselect returns any subset of its options, the slider any range
\* lo <= hi inside its bounds.  The script then runs again from the top in a
\* fresh namespace; the cache entry and the widget values are kept.
Rerun ==
  /\ SidebarDrawn
  /\ \E types \in SUBSET content_types :
       \E lo \in Min(Years(df))..Max(Years(df)) :
         \E hi \in lo..Max(Years(df)) :
           widget' = [set |-> TRUE, types |-> types, lo |-> lo, hi |-> hi]
  /\ pc' = "load" /\ fail_at' = "" /\ error' = NoError
  /\ df_original' = <<>> /\ df' = <<>>
  /\ original_rows' = 0 /\ cleaned_rows' = 0 /\ removed' = 0
  /\ pct_removed' = [num |-> 0, den |-> 0]
  /\ content_types' = {} /\ selected_content_types' = {}
  /\ min_year' = 0 /\ max_year' = 0
  /\ df_filtered' = <<>>
  /\ movies' = 0 /\ shows' = 0 /\ countries' = 0 /\ genres' = 0
  /\ type_dist' = <<>> /\ added_trend' = <<>>
  /\ genres_list' = <<>> /\ top_genres' = <<>> /\ rating_dist' = <<>>
  /\ countries_list' = <<>> /\ top_countries' = <<>> /\ release_dist' = <<>>
  /\ movies_df' = <<>> /\ avg_duration' = NoMean /\ movies_note' = ""
  /\ shows_df' = <<>> /\ avg_seasons' = NoMean /\ shows_note' = ""
  /\ insight1' = NoInsight1 /\ insight2' = NoInsight2 /\ insight3' = NoInsight3
  /\ table' = <<>>
  /\ UNCHANGED <<csv, cache>>

Next ==
  \/ Load
  \/ Summary
  \/ Sidebar
  \/ Filter
  \/ Metrics
  \/ Overview
  \/ GenresRatings
  \/ GeoTemporal
  \/ Duration
  \/ Insights
  \/ DetailedTable
  \/ Rerun

Spec == Init /\ [][Next]_vars

\* ------------------------------------------- the filter as a pure function
\* The filter expression applied to any cleaned store and any specification,
\* including the ones the sidebar never produces (min_year > max_year).
YearDomain == 2018..2022

InitFilter ==
  /\ csv \in FullFiles(MaxFilterRows)
  /\ cache = [hit |-> TRUE, original |-> Coerce(ReadCsv(csv)),
              clean |-> DropNa(Coerce(ReadCsv(csv)))]
  /\ widget = NoWidget
  /\ pc = "filter" /\ fail_at = "" /\ error = NoError
  /\ df_original = cache.original /\ df = cache.clean
  /\ original_rows = Len(df_original) /\ cleaned_rows = Len(df)
  /\ removed = Len(df_original) - Len(df)
  /\ pct_removed = [num |-> removed * 100, den |-> original_rows]
  /\ content_types = Range(Column(df, "type"))
  /\ selected_content_types \in SUBSET {Movie, TVShow}
  /\ min_year \in YearDomain /\ max_year \in YearDomain
  /\ df_filtered = <<>>
  /\ movies = 0 /\ shows = 0 /\ countries = 0 /\ genres = 0
  /\ type_dist = <<>> /\ added_trend = <<>>
  /\ genres_list = <<>> /\ top_genres = <<>> /\ rating_dist = <<>>
  /\ countries_list = <<>> /\ top_countries = <<>> /\ release_dist = <<>>
  /\ movies_df = <<>> /\ avg_duration = NoMean /\ movies_note = ""
  /\ shows_df = <<>> /\ avg_seasons = NoMean /\ shows_note = ""
  /\ insight1 = NoInsight1 /\ insight2 = NoInsight2 /\ insight3 = NoInsight3
  /\ table = <<>>

NextFilter == Filter

SpecFilter == InitFilter /\ [][NextFilter]_vars

\* ------------------------------------------------------ three-record runs
\* The whole script over files of LongRows records that all survive
\* cleaning: enough records for a mean that is neither whole nor a half.
SurvivingRows ==
  {r \in RowPool :
     ~HasNull(Coerce(ReadCsv([columns |-> AllColumns, rows |-> <<r>>]))[1])}

LongFiles ==
  {[columns |-> AllColumns, rows |-> rows] :
     rows \in [1..LongRows -> SurvivingRows]}

InitLong == csv \in LongFiles /\ FirstRun

SpecLong == InitLong /\ [][Next]_vars

\* =================================================================== claims
\* The k-th smallest index of keep: the one order-preserving way to lay the
\* kept positions out as a sequence.
KthKept(keep, k) == CHOOSE i \in keep : Cardinality({j \in keep : j <= i}) = k

\* The order-preserving subsequence of s at the positions in keep.
SubsequenceAt(s, keep) == [k \in 1..Cardinality(keep) |-> s[KthKept(keep, k)]]

\* The summary section has run (it may have raised on its last line).
SummaryRan == Past("summary") \/ (pc = "failed" /\ fail_at = "summary")

NumericString(s) ==
  \/ s # <<>> /\ \A i \in DOMAIN s : s[i] \in Digits
  \/ Len(s) > 1 /\ s[1] = "-" /\ \A i \in 2..Len(s) : s[i] \in Digits

\* Field c of raw record i is null once date_added and release_year have
\* been coerced.
NullAfterCoercion(i, c) ==
  LET raw == csv.rows[i][c]
  IN \/ raw \in NaMarkers
     \/ c = "date_added" /\ ToDatetime(Val(raw)).isnull
     \/ c = "release_year" /\ ~NumericString(raw)

\* C1: a raw record is in the cleaned store iff none of its fields is null
\* after coercion; the cleaned store is the order-preserving subsequence of
\* those records, and cleaned count + removed count = original count.
CleaningTotality ==
  /\ Past("load") =>
       LET keep == {i \in DOMAIN csv.rows :
                      \A c \in csv.columns : ~NullAfterCoercion(i, c)}
       IN /\ Len(df_original) = Len(csv.rows)
          /\ \A i \in DOMAIN df_original : \A c \in csv.columns :
               df_original[i][c].isnull <=> NullAfterCoercion(i, c)
          /\ df = SubsequenceAt(df_original, keep)
  /\ SummaryRan =>
       /\ original_rows = Len(csv.rows)
       /\ cleaned_rows = Len(df)
       /\ cleaned_rows + removed = original_rows

\* C1 witness: a record dropped for a date that failed to coerce stands
\* before a record that is kept, and the counts are on the page.
CleaningTotalityWitness ==
  /\ Past("summary")
  /\ removed > 0 /\ cleaned_rows > 0
  /\ \E i \in DOMAIN csv.rows : \E j \in DOMAIN csv.rows :
       /\ i < j
       /\ csv.rows[i]["date_added"] \notin NaMarkers
       /\ df_original[i]["date_added"].isnull
       /\ ~HasNull(df_original[j])

\* C2: the filtered view is exactly the order-preserving subsequence of the
\* cleaned records of a selected type whose year lies in [min_year, max_year],
\* both ends included; no selected type, or min_year > max_year, gives the
\* empty view and no failure.
FilterContainment ==
  /\ pc # "failed"
  /\ Past("filter") =>
       LET keep == {i \in DOMAIN df :
                      /\ df[i]["type"].v \in selected_content_types
                      /\ min_year <= df[i]["release_year"].v
                      /\ df[i]["release_year"].v <= max_year}
       IN /\ df_filtered = SubsequenceAt(df, keep)
          /\ selected_content_types = {} => df_filtered = <<>>
          /\ min_year > max_year => df_filtered = <<>>

\* C2 witness: a proper, non-empty view holding a record at each end of the
\* year range.
FilterContainmentWitness ==
  /\ Past("filter")
  /\ min_year < max_year
  /\ Len(df_filtered) > 0 /\ Len(df_filtered) < Len(df)
  /\ \E i \in DOMAIN df_filtered : df_filtered[i]["release_year"].v = min_year
  /\ \E i \in DOMAIN df_filtered : df_filtered[i]["release_year"].v = max_year

\* The sidebar's current filter specification selects no content type.
ZeroTypesSelected == widget.set /\ widget.types = {}

\* C3: with zero content types selected the view is empty, every aggregate
\* is its empty / "no data" value, the three insights show their sentinels
\* instead of a computed value, and the run raises nothing.
DegenerateInputStability ==
  (csv.columns = AllColumns /\ ZeroTypesSelected) =>
    /\ pc # "failed"
    /\ Past("filter") => df_filtered = <<>>
    /\ Past("metrics") =>
         movies = 0 /\ shows = 0 /\ countries = 0 /\ genres = 0
    /\ Past("overview") => type_dist = <<>> /\ added_trend = <<>>
    /\ Past("genres") => top_genres = <<>> /\ rating_dist = <<>>
    /\ Past("geo") => top_countries = <<>> /\ release_dist = <<>>
    /\ Past("duration") =>
         /\ movies_note = "No movies in selected filters"
         /\ shows_note = "No TV shows in selected filters"
         /\ avg_duration = NoMean /\ avg_seasons = NoMean
    /\ Past("insights") =>
         /\ insight1.kind = "Only movies selected"
         /\ insight2.kind = "No data available"
         /\ insight3.kind = "No data available"
    /\ Past("table") => table = <<>>

\* C3 witness: a complete run over a non-empty cleaned store with no content
\* type selected.
DegenerateInputWitness ==
  pc = "done" /\ ZeroTypesSelected /\ Len(df) > 0 /\ csv.columns = AllColumns

\* Leading maximal run of decimal digits of s (empty when s does not start
\* with a digit).
LeadingRun(s) ==
  SubSeq(s, 1, Max({n \in 0..Len(s) : \A j \in 1..n : s[j] \in Digits}))

\* First maximal run of decimal digits found anywhere in s (empty when s
\* holds no digit).
FirstDigits(s) ==
  LET at == {i \in DOMAIN s : s[i] \in Digits}
  IN IF at = {} THEN <<>>
     ELSE LET i == Min(at)
              j == Max({e \in i..Len(s) : \A k \in i..e : s[k] \in Digits})
          IN SubSeq(s, i, j)

NumberOf(run) == IF run = <<>> THEN NullNum ELSE Val(DecimalValue(run))

\* Rows of frame without the derived column new.
WithoutColumn(frame, new) ==
  [i \in DOMAIN frame |-> Restrict(frame[i], DOMAIN frame[i] \ {new})]

NonNull(frame, col) == {i \in DOMAIN frame : ~frame[i][col].isnull}

\* The records whose extraction is null stay in the view and in the frame
\* the histogram is drawn from; only the mean (and the histogram's bins)
\* leave them out.
NullOnlyLeavesMean(frame, col, t, avg) ==
  /\ WithoutColumn(frame, col) = SelectType(df_filtered, t)
  /\ frame # <<>> =>
       /\ avg.n = Cardinality(NonNull(frame, col))
       /\ avg.sum = SumSeq([k \in 1..Cardinality(NonNull(frame, col)) |->
                              frame[KthKept(NonNull(frame, col), k)][col].v])
       /\ avg.isnull <=> NonNull(frame, col) = {}

Least(a, b) == IF a <= b THEN a ELSE b

\* top is a correct top-K table of the exploded values vals.
TopKCorrect(top, vals) ==
  LET inTop == {top[i].value : i \in DOMAIN top}
  IN /\ Len(top) = Least(TopK, Cardinality(Range(vals)))
     /\ Cardinality(inTop) = Len(top)
     /\ \A i \in DOMAIN top :
          /\ top[i].value \in Range(vals)
          /\ top[i].count = Occurrences(vals, top[i].value)
          /\ \A j \in DOMAIN top : i < j => top[i].count >= top[j].count
          /\ \A v \in Range(vals) \ inTop : top[i].count >= Occurrences(vals, v)

\* C5: the top-15 genre and country tables have min(15, distinct) entries,
\* are ordered by count descending, and no value left out has a larger count
\* than a value in the table.
TopKMonotonic ==
  /\ Past("genres") => TopKCorrect(top_genres, genres_list)
  /\ Past("geo") => TopKCorrect(top_countries, countries_list)

\* C5 witness: more than 15 distinct genres with unequal counts, so the
\* table is cut and the cut has to respect the counts.
TopKWitness ==
  /\ Past("geo")
  /\ Cardinality(Range(genres_list)) > TopK
  /\ Len(top_genres) = TopK
  /\ top_genres[1].count > top_genres[TopK].count
  /\ genres_list[Len(genres_list)] = top_genres[1].value
  /\ Len(top_countries) > 1

\* Number of ", " in s: one less than the number of values s lists.
DelimiterCount(s) ==
  Cardinality({k \in 1..(Len(s) - 1) : s[k] = "," /\ s[k + 1] = " "})

\* The counts of the exploded field add up to the number of listed values,
\* and each value's count is the number of times records list it.
Conserved(vals, view, col) ==
  /\ LET t == ValueCounts(vals)
     IN SumSeq([i \in DOMAIN t |-> t[i].count])
          = SumSeq([i \in DOMAIN view |-> 1 + DelimiterCount(view[i][col].v)])
  /\ \A v \in Range(vals) :
       Occurrences(vals, v)
         = SumSeq([i \in DOMAIN view |->
                     Occurrences(Split(view[i][col].v, Delimiter), v)])

\* C6: for listed_in and country, the per-value counts of the exploded field
\* sum to the number of ", "-separated values over the records of the view;
\* a record adds one whole unit to each value it lists.
ExplosionConservation ==
  /\ Past("genres") => Conserved(genres_list, df_filtered, "listed_in")
  /\ Past("geo") => Conserved(countries_list, df_filtered, "country")

\* C6 witness: a view with a record listing several countries and a record
\* listing one genre twice.
ExplosionWitness ==
  /\ Past("geo")
  /\ \E i \in DOMAIN df_filtered : DelimiterCount(df_filtered[i]["country"].v) >= 2
  /\ \E i \in DOMAIN df_filtered :
       df_filtered[i]["listed_in"].v = Join(<<Drama, Drama>>)
  /\ Len(countries_list) > Len(df_filtered)

\* C7 as stated: a file lacking a required column makes the load step fail;
\* the script gets no further than the load.
MissingColumnFailsAtLoad ==
  ~(RequiredColumns \subseteq csv.columns) =>
    (pc = "load" \/ (pc = "failed" /\ fail_at = "load"))

\* The filter specification the current run works with: the widgets' values,
\* or their defaults (every type, the full span of years) on the first run.
CurrentTypes == IF widget.set THEN widget.types ELSE Range(Column(cache.clean, "type"))
CurrentLo == IF widget.set THEN widget.lo ELSE Min(Years(cache.clean))
CurrentHi == IF widget.set THEN widget.hi ELSE Max(Years(cache.clean))

\* The view that the cleaned store and the current specification determine.
CurrentView ==
  SubsequenceAt(cache.clean,
                {i \in DOMAIN cache.clean :
                   /\ cache.clean[i]["type"].v \in CurrentTypes
                   /\ CurrentLo <= cache.clean[i]["release_year"].v
                   /\ cache.clean[i]["release_year"].v <= CurrentHi})

\* C8: across re-runs the raw and cleaned stores stay what the load made of
\* the file, and the view and the aggregates of a pass are determined by the
\* cleaned store and the current filter specification alone; the derived
\* duration column never reaches the view or the stores.
StoreImmutableAndStateless ==
  /\ cache.hit =>
       /\ cache.original = Coerce(ReadCsv(csv))
       /\ cache.clean = SubsequenceAt(cache.original,
                          {i \in DOMAIN cache.original : ~HasNull(cache.original[i])})
  /\ Past("load") => df_original = cache.original /\ df = cache.clean
  /\ Past("sidebar") =>
       /\ selected_content_types = CurrentTypes
       /\ min_year = CurrentLo /\ max_year = CurrentHi
  /\ Past("filter") => df_filtered = CurrentView
  /\ Past("genres") => top_genres = Prefix(ValueCounts(Exploded(CurrentView, "listed_in")), TopK)
  /\ Past("geo") => top_countries = Prefix(ValueCounts(Exploded(CurrentView, "country")), TopK)
  /\ Past("duration") =>
       /\ WithoutColumn(movies_df, "duration_min") = SelectType(CurrentView, Movie)
       /\ WithoutColumn(shows_df, "seasons") = SelectType(CurrentView, TVShow)
  /\ Past("insights") =>
       /\ insight1 = ContentMix(CurrentView)
       /\ insight2 = MostPopularGenre(CurrentView)
       /\ insight3 = AverageReleaseYear(CurrentView)

\* C8 witness: a re-run under a narrower specification has completed, the
\* derived column was added to a non-empty movie frame.
StoreImmutableWitness ==
  /\ pc = "done"
  /\ widget.set
  /\ widget.types # Range(Column(df, "type"))
  /\ Len(movies_df) > 0
  /\ Len(df_filtered) < Len(df)

\* C9 as stated: with the required columns present, neither the load nor the
\* cleaning summary (the four stats) raises.
CleaningNeverFails ==
  (RequiredColumns \subseteq csv.columns) =>
    ~(pc = "failed" /\ fail_at \in {"load", "summary"})

\* C10 as stated: the reported average release year is a nearest integer to
\* the mean of release_year over the view.
MeanReleaseYearNearest ==
  (Past("insights") /\ Len(df_filtered) > 0) =>
    LET total == SumSeq(Column(df_filtered, "release_year"))
        n == Len(df_filtered)
        off == n * insight3.value - total
    IN /\ insight3.kind = "year"
       /\ 2 * off <= n /\ 2 * (0 - off) <= n

====
